---- MODULE Spec2Model ----
(***************************************************************************)
(* A model of SimpleObfPass (src/SimpleObfPass.cpp): the module pass that  *)
(* XOR-encrypts string globals, inserts bogus functions, renames private   *)
(* globals and inserts a dead conditional, Cycles times, and then writes   *)
(* its telemetry.                                                          *)
(*                                                                         *)
(* A name is a sequence of string tokens whose concatenation is the LLVM   *)
(* name: <<"s", "_obf">> is "s_obf".  The base tokens of the initial       *)
(* modules contain none of the suffix tokens, so two names are equal as    *)
(* strings exactly when they are equal as token sequences.                 *)
(***************************************************************************)
EXTENDS Integers, Sequences, FiniteSets, TLC

VARIABLES
    XorKey,              \* cl::opt<int> xor-key
    BogusCount,          \* cl::opt<int> bogus-count
    Cycles,              \* cl::opt<int> cycles
    ndebug,              \* TRUE when LLVM's assert()s are compiled out
    globals,             \* M.globals(), in module order
    funcs,               \* the functions of M, in module order
    lastUnique,          \* the module symbol table's LastUnique counter
    strings_obf_count,
    fake_funcs_inserted,
    cycles_completed,
    cycle,               \* the loop variable of runOnModule
    changed,             \* the local of runOnModule, returned at the end
    pc,                  \* the position of runOnModule
    telemetry,           \* what outputTelemetry left behind
    bogusLog,            \* the names "Inserted bogus function: " was logged with
    M0                   \* the module as it was handed to runOnModule

vars == <<XorKey, BogusCount, Cycles, ndebug, globals, funcs, lastUnique,
          strings_obf_count, fake_funcs_inserted, cycles_completed, cycle,
          changed, pc, telemetry, bogusLog, M0>>

config == <<XorKey, BogusCount, Cycles, ndebug, M0>>

(***************************************************************************)
(* Bounds of the model.                                                    *)
(***************************************************************************)
MaxCycles == 3
MaxBogus == 1
\* the longest byte sequence the XOR loop is run on by itself
MaxLen == 3

\* the values rand() % 10000 is let to take
RandVals == {3, 7}

\* 256 has the low byte 0, 426 the low byte 170
Keys == {0, 170, 256, 426}

(***************************************************************************)
(* Names.                                                                  *)
(***************************************************************************)
EndsWith(name, s) == Len(name) > 0 /\ name[Len(name)] = s

StartsWith(name, s) == Len(name) > 0 /\ name[1] = s

\* the names the module's symbol table holds: global variables and functions
Taken(gs, fs, name) ==
    \/ \E i \in 1..Len(gs) : gs[i].name = name
    \/ \E j \in 1..Len(fs) : fs[j].name = name

\* ValueSymbolTable::makeUniqueName: append "." and the next number until the
\* name is free
RECURSIVE makeUniqueName(_, _, _, _)
makeUniqueName(gs, fs, name, lu) ==
    LET cand == name \o <<".", ToString(lu + 1)>>
    IN  IF Taken(gs, fs, cand)
        THEN makeUniqueName(gs, fs, name, lu + 1)
        ELSE [name |-> cand, lu |-> lu + 1]

\* createValueName without the symbol table's uniquing
createValueNameAsAsked(gs, fs, name, lu) == [name |-> name, lu |-> lu]

\* Value::setName / the naming of a new GlobalValue: the name asked for when
\* it is free in the module, a uniqued one otherwise
createValueName(gs, fs, name, lu) ==
    IF Taken(gs, fs, name)
    THEN makeUniqueName(gs, fs, name, lu)
    ELSE [name |-> name, lu |-> lu]

(***************************************************************************)
(* Bytes.                                                                  *)
(***************************************************************************)
RECURSIVE BitXor(_, _, _)
BitXor(a, b, n) ==
    IF n = 0 THEN 0
    ELSE (((a % 2) + (b % 2)) % 2) + 2 * BitXor(a \div 2, b \div 2, n - 1)

\* XorByte with + for ^
XorByteAdding(c, key) == (c + (key % 256)) % 256

\* originalStr[i] ^ (XorKey & 0xFF), stored into a uint8_t
XorByte(c, key) == BitXor(c, key % 256, 8)

(***************************************************************************)
(* Global variables.                                                       *)
(***************************************************************************)
GV(name, linkage, isConstant, hasInitializer, isI8Array, payload) ==
    [name |-> name, linkage |-> linkage, isConstant |-> isConstant,
     hasInitializer |-> hasInitializer, isI8Array |-> isI8Array,
     payload |-> payload]

\* isString that takes an all-zero array of i8 for a string as well
isStringOrZeros(g) == g.isI8Array

\* dyn_cast<ConstantDataArray>(init) && CDA->isString(): an array of i8 that
\* is not all zero (LLVM holds an all-zero array as ConstantAggregateZero)
isString(g) ==
    /\ g.isI8Array
    /\ \E i \in 1..Len(g.payload) : g.payload[i] # 0

\* ConstantDataSequential::isCString: ends with a null byte and holds no other
isCString(p) ==
    /\ Len(p) > 0
    /\ p[Len(p)] = 0
    /\ \A i \in 1..(Len(p) - 1) : p[i] # 0

\* EligibleString without the test of the linkage
EligibleStringAnyLinkage(g) ==
    /\ g.hasInitializer
    /\ g.isConstant
    /\ isString(g)

\* EligibleString that skips a name ending in _obf
EligibleStringUnlessSuffixed(g) ==
    /\ g.hasInitializer
    /\ g.isConstant
    /\ g.linkage # "external"
    /\ isString(g)
    /\ ~EndsWith(g.name, "_obf")

\* the test of the first loop of obfuscateStrings
EligibleString(g) ==
    /\ g.hasInitializer
    /\ g.isConstant
    /\ g.linkage # "external"
    /\ isString(g)

\* stringGlobals, as indices into the globals, in module order
stringGlobals(gs) ==
    SelectSeq([i \in 1..Len(gs) |-> i], LAMBDA i : EligibleString(gs[i]))

\* getAsCString() without its assert: the payload less its last byte
getAsCString(p) == SubSeq(p, 1, Len(p) - 1)

\* the loop of encryptString over the bytes of originalStr
xorBytes(str, key) == [i \in 1..Len(str) |-> XorByte(str[i], key)]

\* the bytes of `encrypted`
encryptBytes(p, key) == xorBytes(getAsCString(p), key) \o <<0>>

\* encryptString that returns at once when the key changes no byte
encryptStringSkippingNoOp(st, i, key) ==
    IF key % 256 = 0 THEN st
    ELSE LET g         == st.gs[i]
             encrypted == encryptBytes(g.payload, key)
             encName   == createValueName(st.gs, st.fs, g.name \o <<"_enc">>, st.lu)
             gs1       == Append(st.gs,
                            GV(encName.name, "private", TRUE, TRUE, TRUE, encrypted))
             obfName   == createValueName(gs1, st.fs, g.name \o <<"_obf">>, encName.lu)
         IN  [st EXCEPT !.gs = [gs1 EXCEPT ![i] =
                                  [g EXCEPT !.payload = encrypted,
                                            !.name = obfName.name]],
                        !.lu = obfName.lu,
                        !.count = st.count + 1]

\* encryptString(M, GV) for the global at index i: a new private constant
\* <name>_enc is appended to the module, and the global gets the encrypted
\* initializer and the name <name>_obf
encryptString(st, i, key) ==
    LET g         == st.gs[i]
        encrypted == encryptBytes(g.payload, key)
        encName   == createValueName(st.gs, st.fs, g.name \o <<"_enc">>, st.lu)
        gs1       == Append(st.gs,
                       GV(encName.name, "private", TRUE, TRUE, TRUE, encrypted))
        obfName   == createValueName(gs1, st.fs, g.name \o <<"_obf">>, encName.lu)
    IN  [st EXCEPT !.gs = [gs1 EXCEPT ![i] =
                             [g EXCEPT !.payload = encrypted,
                                       !.name = obfName.name]],
                   !.lu = obfName.lu,
                   !.count = st.count + 1]

\* the second loop of obfuscateStrings over sel[k..]; with asserts compiled
\* in, getAsCString aborts the process on a payload that is no C string
RECURSIVE encryptAll(_, _, _, _, _)
encryptAll(st, sel, k, key, nd) ==
    IF k > Len(sel) THEN st
    ELSE IF ~nd /\ ~isCString(st.gs[sel[k]].payload)
         THEN [st EXCEPT !.aborted = TRUE]
         ELSE encryptAll(encryptString(st, sel[k], key), sel, k + 1, key, nd)

obfuscateStrings(gs, fs, lu, count, key, nd) ==
    LET sel == stringGlobals(gs)
        st  == encryptAll([gs |-> gs, fs |-> fs, lu |-> lu, count |-> count,
                           aborted |-> FALSE], sel, 1, key, nd)
    IN  [gs |-> st.gs, lu |-> st.lu, count |-> st.count,
         aborted |-> st.aborted, changed |-> sel # <<>>]

(***************************************************************************)
(* Functions.  A function is a name and its basic blocks (none for a       *)
(* declaration); blocks[1] is the entry block; a branch names its target   *)
(* by its index in the function's block list, which only grows.  An        *)
(* instruction works on one i32 value, which starts as the argument:       *)
(*   add k, mul k   arithmetic on the value                                *)
(*   call k         an externally visible effect, of k and the value       *)
(*   ret            return the value                                       *)
(*   br t           jump to block t                                        *)
(*   condbr c t f   jump to t when the condition holds, else to f; the     *)
(*                  condition is the constant c (0 or 1), or for c = 2     *)
(*                  whether the value is non-zero                          *)
(***************************************************************************)
Ins(op, arg, t, f) == [op |-> op, arg |-> arg, t |-> t, f |-> f]

BB(name, instrs) == [name |-> name, instrs |-> instrs]

Fn(name, blocks) == [name |-> name, blocks |-> blocks]

isDeclaration(F) == F.blocks = <<>>

\* the body insertBogusFunctions builds for ordinal i: three rounds of
\* add (j + i), mul 2, then ret
bogusBody(i) ==
    <<Ins("add", 0 + i, 0, 0), Ins("mul", 2, 0, 0),
      Ins("add", 1 + i, 0, 0), Ins("mul", 2, 0, 0),
      Ins("add", 2 + i, 0, 0), Ins("mul", 2, 0, 0),
      Ins("ret", 0, 0, 0)>>

\* insertBogusFunctions for i = k .. B - 1; rands[i + 1] is what rand() % 10000
\* gave for ordinal i
RECURSIVE insertBogusFrom(_, _, _, _)
insertBogusFrom(st, k, B, rands) ==
    IF k >= B THEN st
    ELSE LET funcName == <<"bogus_func_", ToString(k), "_", ToString(rands[k + 1])>>
             nm       == createValueName(st.gs, st.fs, funcName, st.lu)
             BogusF   == Fn(nm.name, <<BB("entry", bogusBody(k))>>)
         IN  insertBogusFrom([st EXCEPT !.fs = Append(st.fs, BogusF),
                                        !.lu = nm.lu,
                                        !.count = st.count + 1,
                                        !.changed = TRUE,
                                        !.log = Append(st.log, funcName)],
                             k + 1, B, rands)

\* insertBogusFunctions with its loop started at ordinal 1
insertBogusFunctionsFromOne(gs, fs, lu, count, B, rands) ==
    insertBogusFrom([gs |-> gs, fs |-> fs, lu |-> lu, count |-> count,
                     changed |-> FALSE, log |-> <<>>], 1, B, rands)

insertBogusFunctions(gs, fs, lu, count, B, rands) ==
    insertBogusFrom([gs |-> gs, fs |-> fs, lu |-> lu, count |-> count,
                     changed |-> FALSE, log |-> <<>>], 0, B, rands)

(***************************************************************************)
(* The symbol renamer.                                                     *)
(***************************************************************************)
\* the test of the first loop of renamePrivateGlobals
RenameCandidate(g) ==
    /\ g.linkage = "private"
    /\ ~EndsWith(g.name, "_obf")
    /\ ~EndsWith(g.name, "_enc")

toRename(gs) ==
    SelectSeq([i \in 1..Len(gs) |-> i], LAMBDA i : RenameCandidate(gs[i]))

\* renameFrom with the suffix put in place of the name
RECURSIVE renameFromSubstituting(_, _, _)
renameFromSubstituting(st, sel, k) ==
    IF k > Len(sel) THEN st
    ELSE LET i  == sel[k]
             nm == createValueName(st.gs, st.fs, <<"_obf">>, st.lu)
         IN  renameFromSubstituting([st EXCEPT !.gs[i].name = nm.name,
                                               !.lu = nm.lu,
                                               !.changed = TRUE],
                                    sel, k + 1)

RECURSIVE renameFrom(_, _, _)
renameFrom(st, sel, k) ==
    IF k > Len(sel) THEN st
    ELSE LET i  == sel[k]
             nm == createValueName(st.gs, st.fs, st.gs[i].name \o <<"_obf">>, st.lu)
         IN  renameFrom([st EXCEPT !.gs[i].name = nm.name,
                                   !.lu = nm.lu,
                                   !.changed = TRUE],
                        sel, k + 1)

renamePrivateGlobals(gs, fs, lu) ==
    renameFrom([gs |-> gs, fs |-> fs, lu |-> lu, changed |-> FALSE],
               toRename(gs), 1)

(***************************************************************************)
(* The dead-branch inserter.                                               *)
(***************************************************************************)
\* DeadCandidate without the test of the decoy prefix
DeadCandidateAnyName(F) ==
    /\ ~isDeclaration(F)
    /\ F.blocks[1].instrs # <<>>

\* a function the loop of insertDeadConditionals does not skip
DeadCandidate(F) ==
    /\ ~isDeclaration(F)
    /\ ~StartsWith(F.name, "bogus_func_")
    /\ F.blocks[1].instrs # <<>>

\* addDeadConditional that also gives F the suffix _obf
addDeadConditionalRenaming(F) ==
    LET n == Len(F.blocks)
    IN  [name |-> F.name \o <<"_obf">>,
         blocks |->
            [F.blocks EXCEPT ![1] =
                [@ EXCEPT !.instrs = <<Ins("condbr", 0, n + 1, n + 2)>> \o @]]
            \o <<BB("dead_branch_obf", <<Ins("br", 0, n + 2, 0)>>),
                 BB("continue_obf", <<Ins("br", 0, 1, 0)>>)>>]

\* what the loop body does to F.  CreateICmpEQ of the constants 0 and 1 is
\* folded by the builder to the constant false and inserts nothing; the
\* conditional branch is inserted at EntryBB.begin(), before the instructions
\* of the entry block; DeadBB and ContBB are appended to F
addDeadConditional(F) ==
    LET n      == Len(F.blocks)
        DeadBB == n + 1
        ContBB == n + 2
        Entry  == F.blocks[1]
    IN  [F EXCEPT !.blocks =
            [F.blocks EXCEPT ![1] =
                [Entry EXCEPT !.instrs =
                    <<Ins("condbr", 0, DeadBB, ContBB)>> \o Entry.instrs]]
            \o <<BB("dead_branch_obf", <<Ins("br", 0, ContBB, 0)>>),
                 BB("continue_obf", <<Ins("br", 0, 1, 0)>>)>>]

\* deadTarget without the break: the last candidate, 0 for none
deadTargetLast(fs) ==
    IF \E i \in 1..Len(fs) : DeadCandidate(fs[i])
    THEN CHOOSE i \in 1..Len(fs) :
            /\ DeadCandidate(fs[i])
            /\ \A j \in (i + 1)..Len(fs) : ~DeadCandidate(fs[j])
    ELSE 0

\* the index of the function insertDeadConditionals modifies, 0 for none
deadTarget(fs) ==
    IF \E i \in 1..Len(fs) : DeadCandidate(fs[i])
    THEN CHOOSE i \in 1..Len(fs) :
            /\ DeadCandidate(fs[i])
            /\ \A j \in 1..(i - 1) : ~DeadCandidate(fs[j])
    ELSE 0

insertDeadConditionals(fs) ==
    LET i == deadTarget(fs)
    IN  IF i = 0 THEN [fs |-> fs, changed |-> FALSE]
        ELSE [fs |-> [fs EXCEPT ![i] = addDeadConditional(fs[i])],
              changed |-> TRUE]

(***************************************************************************)
(* What a call of a function does: the effects it makes, and whether it    *)
(* returns (and what), runs for ever, or runs off a block that has no      *)
(* terminator.  Control passes at the first terminator of a block: what    *)
(* follows a terminator in its block is never executed (the IR verifier,   *)
(* where it is run, rejects such a block and no program is produced).      *)
(***************************************************************************)
Outcome(status, value, trace) ==
    [status |-> status, value |-> value, trace |-> trace]

RECURSIVE Run(_, _, _, _, _, _)
Run(blocks, b, k, acc, trace, seen) ==
    IF k > Len(blocks[b].instrs) THEN Outcome("undefined", 0, trace)
    ELSE LET ins  == blocks[b].instrs[k]
             goto(t) == IF <<t, acc>> \in seen
                        THEN Outcome("diverges", 0, trace)
                        ELSE Run(blocks, t, 1, acc, trace, seen \cup {<<t, acc>>})
         IN  CASE ins.op = "add"  -> Run(blocks, b, k + 1, acc + ins.arg, trace, seen)
               [] ins.op = "mul"  -> Run(blocks, b, k + 1, acc * ins.arg, trace, seen)
               [] ins.op = "call" -> Run(blocks, b, k + 1, acc,
                                         Append(trace, <<ins.arg, acc>>), seen)
               [] ins.op = "ret"  -> Outcome("returns", acc, trace)
               [] ins.op = "br"   -> goto(ins.t)
               [] ins.op = "condbr" ->
                    LET c == IF ins.arg = 2 THEN acc # 0 ELSE ins.arg = 1
                    IN  goto(IF c THEN ins.t ELSE ins.f)

Exec(F, input) == Run(F.blocks, 1, 1, input, <<>>, {<<1, input>>})

\* the arguments functions are called with
Inputs == {0, 1}

(***************************************************************************)
(* The modules the pass is run on.                                         *)
(***************************************************************************)
ABC == <<65, 66, 67, 0>>     \* "ABC"
AB  == <<65, 66, 0>>         \* "AB"

GlobalLists ==
    { <<>>,
      \* a private array that is not constant
      << GV(<<"buf">>, "private", FALSE, TRUE, TRUE, AB) >>,
      \* one private string constant
      << GV(<<"s">>, "private", TRUE, TRUE, TRUE, ABC) >>,
      \* an internal string constant, an external one, an external declaration
      \* and a private array that is not constant
      << GV(<<"s">>, "internal", TRUE, TRUE, TRUE, AB),
         GV(<<"e">>, "external", TRUE, TRUE, TRUE, AB),
         GV(<<"d">>, "external", TRUE, FALSE, TRUE, <<>>),
         GV(<<"buf">>, "private", FALSE, TRUE, TRUE, AB) >>,
      \* a private string constant beside an external global named s_obf
      << GV(<<"s">>, "private", TRUE, TRUE, TRUE, ABC),
         GV(<<"s", "_obf">>, "external", TRUE, TRUE, TRUE, AB) >>,
      \* a string holding the byte 170 beside a private i32 named s_enc
      << GV(<<"s">>, "private", TRUE, TRUE, TRUE, <<170, 65, 0>>),
         GV(<<"s", "_enc">>, "private", FALSE, TRUE, FALSE, <<7, 0, 0, 0>>) >>,
      \* a private constant i8 array with no null terminator, and a string
      \* of the one character 170
      << GV(<<"raw">>, "private", TRUE, TRUE, TRUE, <<65, 66>>),
         GV(<<"t">>, "private", TRUE, TRUE, TRUE, <<170, 0>>) >> }

FuncLists ==
    { \* nothing but a declaration
      << Fn(<<"puts">>, <<>>) >>,
      \* a declaration, and a definition of two blocks
      << Fn(<<"puts">>, <<>>),
         Fn(<<"main">>,
            << BB("entry", <<Ins("call", 1, 0, 0), Ins("add", 5, 0, 0),
                             Ins("br", 0, 2, 0)>>),
               BB("exit", <<Ins("call", 2, 0, 0), Ins("ret", 0, 0, 0)>>) >>) >>,
      \* a function whose entry block is still empty, a user function whose
      \* name starts with bogus_func_, a function that branches on its
      \* argument, and one more definition
      << Fn(<<"stub">>, << BB("entry", <<>>) >>),
         Fn(<<"bogus_func_", "helper">>,
            << BB("entry", <<Ins("call", 3, 0, 0), Ins("ret", 0, 0, 0)>>) >>),
         Fn(<<"f">>,
            << BB("entry", <<Ins("call", 1, 0, 0), Ins("condbr", 2, 2, 3)>>),
               BB("then", <<Ins("call", 2, 0, 0), Ins("ret", 0, 0, 0)>>),
               BB("else", <<Ins("mul", 3, 0, 0), Ins("ret", 0, 0, 0)>>) >>),
         Fn(<<"g">>,
            << BB("entry", <<Ins("call", 4, 0, 0), Ins("ret", 0, 0, 0)>>) >>) >> }

NoTelemetry == [file |-> <<>>, warning |-> FALSE, stderr |-> <<>>]

(***************************************************************************)
(* The pass object after construction, about to run on a module.           *)
(***************************************************************************)
Init ==
    /\ XorKey \in Keys
    /\ BogusCount \in -1..MaxBogus
    /\ Cycles \in -1..MaxCycles
    /\ ndebug \in BOOLEAN
    /\ globals \in GlobalLists
    /\ funcs \in FuncLists
    /\ M0 = [globals |-> globals, funcs |-> funcs]
    /\ lastUnique = 0
    /\ strings_obf_count = 0
    /\ fake_funcs_inserted = 0
    /\ cycles_completed = 0
    /\ cycle = 0
    /\ changed = FALSE
    /\ pc = "start"
    /\ telemetry = NoTelemetry
    /\ bogusLog = <<>>

\* loopTest with <= for <
loopTestInclusive(c) == IF c <= Cycles THEN "obfuscateStrings" ELSE "outputTelemetry"

\* where the for loop of runOnModule goes with loop variable c
loopTest(c) == IF c < Cycles THEN "obfuscateStrings" ELSE "outputTelemetry"

\* runOnModule up to the first test of its loop
Begin ==
    /\ pc = "start"
    /\ cycle' = 0
    /\ changed' = FALSE
    /\ pc' = loopTest(0)
    /\ UNCHANGED <<config, globals, funcs, lastUnique, strings_obf_count,
                   fake_funcs_inserted, cycles_completed, telemetry, bogusLog>>

\* changed |= obfuscateStrings(M)
RunObfuscateStrings ==
    /\ pc = "obfuscateStrings"
    /\ LET r == obfuscateStrings(globals, funcs, lastUnique, strings_obf_count,
                                 XorKey, ndebug)
       IN  /\ globals' = r.gs
           /\ lastUnique' = r.lu
           /\ strings_obf_count' = r.count
           /\ changed' = IF r.aborted THEN changed ELSE (changed \/ r.changed)
           /\ pc' = IF r.aborted THEN "aborted" ELSE "insertBogusFunctions"
    /\ UNCHANGED <<config, funcs, fake_funcs_inserted, cycles_completed, cycle,
                   telemetry, bogusLog>>

\* changed |= insertBogusFunctions(M)
RunInsertBogusFunctions ==
    /\ pc = "insertBogusFunctions"
    /\ \E rands \in [1..BogusCount -> RandVals] :
         LET r == insertBogusFunctions(globals, funcs, lastUnique,
                                       fake_funcs_inserted, BogusCount, rands)
         IN  /\ funcs' = r.fs
             /\ lastUnique' = r.lu
             /\ fake_funcs_inserted' = r.count
             /\ changed' = (changed \/ r.changed)
             /\ bogusLog' = bogusLog \o r.log
    /\ pc' = "renamePrivateGlobals"
    /\ UNCHANGED <<config, globals, strings_obf_count, cycles_completed, cycle,
                   telemetry>>

\* changed |= renamePrivateGlobals(M)
RunRenamePrivateGlobals ==
    /\ pc = "renamePrivateGlobals"
    /\ LET r == renamePrivateGlobals(globals, funcs, lastUnique)
       IN  /\ globals' = r.gs
           /\ lastUnique' = r.lu
           /\ changed' = (changed \/ r.changed)
    /\ pc' = "insertDeadConditionals"
    /\ UNCHANGED <<config, funcs, strings_obf_count, fake_funcs_inserted,
                   cycles_completed, cycle, telemetry, bogusLog>>

\* changed |= insertDeadConditionals(M); cycles_completed++; ++cycle and
\* the test of the loop
RunInsertDeadConditionals ==
    /\ pc = "insertDeadConditionals"
    /\ LET r == insertDeadConditionals(funcs)
       IN  /\ funcs' = r.fs
           /\ changed' = (changed \/ r.changed)
    /\ cycles_completed' = cycles_completed + 1
    /\ cycle' = cycle + 1
    /\ pc' = loopTest(cycle + 1)
    /\ UNCHANGED <<config, globals, lastUnique, strings_obf_count,
                   fake_funcs_inserted, telemetry, bogusLog>>

\* the record outputTelemetry writes to warp_pass_telemetry.json
telemetryRecord ==
    [strings_obf_count |-> strings_obf_count,
     fake_funcs_inserted |-> fake_funcs_inserted,
     cycles_completed |-> cycles_completed,
     xor_key |-> XorKey,
     bogus_count_requested |-> BogusCount]

\* outputTelemetry without the warning of its else branch
outputTelemetrySilent(opened) ==
    [file    |-> IF opened THEN <<telemetryRecord>> ELSE <<>>,
     warning |-> FALSE,
     stderr  |-> <<[strings_obf_count |-> strings_obf_count,
                    fake_funcs_inserted |-> fake_funcs_inserted,
                    cycles_completed |-> cycles_completed]>>]

\* outputTelemetry() and the return of runOnModule; opened tells whether the
\* file could be opened
outputTelemetry(opened) ==
    [file    |-> IF opened THEN <<telemetryRecord>> ELSE <<>>,
     warning |-> ~opened,
     stderr  |-> <<[strings_obf_count |-> strings_obf_count,
                    fake_funcs_inserted |-> fake_funcs_inserted,
                    cycles_completed |-> cycles_completed]>>]

RunOutputTelemetry ==
    /\ pc = "outputTelemetry"
    /\ \E opened \in BOOLEAN : telemetry' = outputTelemetry(opened)
    /\ pc' = "done"
    /\ UNCHANGED <<config, globals, funcs, lastUnique, strings_obf_count,
                   fake_funcs_inserted, cycles_completed, cycle, changed,
                   bogusLog>>

Next ==
    \/ Begin
    \/ RunObfuscateStrings
    \/ RunInsertBogusFunctions
    \/ RunRenamePrivateGlobals
    \/ RunInsertDeadConditionals
    \/ RunOutputTelemetry

Spec == Init /\ [][Next]_vars

(***************************************************************************)
(* The loop of encryptString by itself, run twice with one key: the second  *)
(* run is the decryption the obfuscated program would do.                   *)
(***************************************************************************)
ByteVals == {0, 1, 65, 170, 255}

\* the keys of the pipeline, and -1, 1 and 255
AllKeys == Keys \cup {-1, 1, 255}

ByteSeqs == UNION {[1..n -> ByteVals] : n \in 0..MaxLen}

InitXor ==
    /\ XorKey \in AllKeys
    /\ \E s \in ByteSeqs :
          globals = << GV(<<"s">>, "private", TRUE, TRUE, TRUE, s) >>
    /\ BogusCount = 0
    /\ Cycles = 1
    /\ ndebug = TRUE
    /\ funcs = <<>>
    /\ M0 = [globals |-> globals, funcs |-> funcs]
    /\ lastUnique = 0
    /\ strings_obf_count = 0
    /\ fake_funcs_inserted = 0
    /\ cycles_completed = 0
    /\ cycle = 0
    /\ changed = FALSE
    /\ pc = "encrypt"
    /\ telemetry = NoTelemetry
    /\ bogusLog = <<>>

\* the loop over the bytes of s, its result kept as a second global
Encrypt ==
    /\ pc = "encrypt"
    /\ globals' = Append(globals,
                     GV(<<"s", "_enc">>, "private", TRUE, TRUE, TRUE,
                        xorBytes(globals[1].payload, XorKey)))
    /\ pc' = "decrypt"
    /\ UNCHANGED <<config, funcs, lastUnique, strings_obf_count,
                   fake_funcs_inserted, cycles_completed, cycle, changed,
                   telemetry, bogusLog>>

\* the same loop over the bytes Encrypt produced, kept as a third global
Decrypt ==
    /\ pc = "decrypt"
    /\ globals' = Append(globals,
                     GV(<<"s", "_dec">>, "private", TRUE, TRUE, TRUE,
                        xorBytes(globals[2].payload, XorKey)))
    /\ pc' = "end"
    /\ UNCHANGED <<config, funcs, lastUnique, strings_obf_count,
                   fake_funcs_inserted, cycles_completed, cycle, changed,
                   telemetry, bogusLog>>

NextXor ==
    \/ Encrypt
    \/ Decrypt

SpecXor == InitXor /\ [][NextXor]_vars

(***************************************************************************)
(* Properties.                                                             *)
(***************************************************************************)
\* the functions and globals the module had before the run keep their place
\* in the module's lists: both lists only grow at the end
OrigFuncs == 1..Len(M0.funcs)
OrigGlobals == 1..Len(M0.globals)

NameSet(gs) == {gs[i].name : i \in 1..Len(gs)}

\* the options are in the ranges the pass is documented for
ValidConfig == BogusCount >= 0 /\ Cycles >= 1

\* C1: (with valid options) every function of the original module that has a
\* body behaves, for every argument, as it did before the run: same effects,
\* same return value, and it returns whenever it returned before.
DeadBranchSafety ==
    ValidConfig =>
        \A i \in OrigFuncs : \A x \in Inputs :
            ~isDeclaration(M0.funcs[i]) =>
                Exec(funcs[i], x) = Exec(M0.funcs[i], x)

\* C2: (with valid options) no continue_obf block branches to the entry block
\* of its function.
ContinuationNotToEntry ==
    ValidConfig => \A i \in 1..Len(funcs) : \A b \in 1..Len(funcs[i].blocks) :
        LET blk == funcs[i].blocks[b]
        IN  blk.name = "continue_obf" =>
                \A k \in 1..Len(blk.instrs) :
                    /\ blk.instrs[k].op = "br" => blk.instrs[k].t # 1
                    /\ blk.instrs[k].op = "condbr" =>
                           (blk.instrs[k].t # 1 /\ blk.instrs[k].f # 1)

\* C3: (with valid options) after the first run of the String Encryptor,
\* every global that was an eligible null-terminated string has a payload of
\* the same length, each byte of it, the terminator too, the original byte
\* XOR (key & 0xFF), and (where no other value of the module bore that name)
\* the name <original name>_obf.
EncryptorXorsEveryByte ==
    (ValidConfig /\ pc = "insertBogusFunctions" /\ cycle = 0) =>
        \A i \in OrigGlobals :
            LET g0 == M0.globals[i]
            IN  (EligibleString(g0) /\ g0.payload[Len(g0.payload)] = 0) =>
                    /\ Len(globals[i].payload) = Len(g0.payload)
                    /\ \A j \in 1..Len(g0.payload) :
                          globals[i].payload[j] = XorByte(g0.payload[j], XorKey)
                    /\ ~Taken(M0.globals, M0.funcs, g0.name \o <<"_obf">>) =>
                          globals[i].name = g0.name \o <<"_obf">>

\* C4: (with valid options) the program reads from every global it had before
\* the run the bytes it read before the run (the module holds no decoder: what
\* is read is the initializer).
StringReadsPreserved ==
    ValidConfig =>
        \A i \in OrigGlobals : globals[i].payload = M0.globals[i].payload

\* C5: a global with external linkage keeps its name and its initializer
\* (and everything else) through the whole run.
ExternalGlobalsUntouched ==
    \A i \in OrigGlobals :
        M0.globals[i].linkage = "external" => globals[i] = M0.globals[i]

\* a finished run that changed other globals of a module that holds an
\* external string constant
ExternalGlobalsUntouchedWitness ==
    /\ pc = "done"
    /\ cycles_completed >= 1
    /\ strings_obf_count > 0
    /\ \E i \in OrigGlobals :
          /\ M0.globals[i].linkage = "external"
          /\ M0.globals[i].isConstant
          /\ M0.globals[i].hasInitializer
          /\ isString(M0.globals[i])

\* C6: after a run with Cycles >= 1 and BogusCount >= 0 the module holds
\* exactly Cycles * BogusCount functions it did not hold before, no two
\* functions have the same name, and fake_funcs_inserted = Cycles * BogusCount.
CountConservation ==
    (pc = "done" /\ Cycles >= 1 /\ BogusCount >= 0) =>
        /\ Len(funcs) = Len(M0.funcs) + Cycles * BogusCount
        /\ \A i \in OrigFuncs : funcs[i].name = M0.funcs[i].name
        /\ \A i, j \in 1..Len(funcs) : funcs[i].name = funcs[j].name => i = j
        /\ fake_funcs_inserted = Cycles * BogusCount
        /\ telemetry.stderr[1].fake_funcs_inserted = Cycles * BogusCount

\* a finished run of two cycles or more in which rand() repeated itself, so
\* that a decoy's name had to be made unique
CountConservationWitness ==
    /\ pc = "done"
    /\ Cycles >= 2
    /\ BogusCount >= 1
    /\ fake_funcs_inserted = Cycles * BogusCount
    /\ \E i \in 1..Len(funcs) : EndsWith(SubSeq(funcs[i].name, 1, Len(funcs[i].name) - 1), ".")

\* the new name of a global whose old name was `old`, for the suffix sfx
SuffixedExactly(new, old, sfx) == new = old \o <<sfx>>

SuffixedAndUniqued(new, old, sfx) ==
    /\ Len(new) = Len(old) + 3
    /\ SubSeq(new, 1, Len(old) + 2) = old \o <<sfx, ".">>
    /\ \E n \in 1..lastUnique' : new[Len(new)] = ToString(n)
    /\ \/ Taken(globals, funcs, old \o <<sfx>>)
       \/ Taken(globals', funcs', old \o <<sfx>>)

NamesExactStep ==
    /\ \A i \in 1..Len(globals) :
          \/ globals'[i].name = globals[i].name
          \/ SuffixedExactly(globals'[i].name, globals[i].name, "_obf")
    /\ \A i \in (Len(globals) + 1)..Len(globals') :
          \E j \in 1..Len(globals) :
              SuffixedExactly(globals'[i].name, globals[j].name, "_enc")

NamesUniquedStep ==
    /\ \A i \in 1..Len(globals) :
          \/ globals'[i].name = globals[i].name
          \/ SuffixedExactly(globals'[i].name, globals[i].name, "_obf")
          \/ SuffixedAndUniqued(globals'[i].name, globals[i].name, "_obf")
    /\ \A i \in (Len(globals) + 1)..Len(globals') :
          \E j \in 1..Len(globals) :
              \/ SuffixedExactly(globals'[i].name, globals[j].name, "_enc")
              \/ SuffixedAndUniqued(globals'[i].name, globals[j].name, "_enc")

NamesDistinct ==
    \A i, j \in 1..Len(globals) : globals[i].name = globals[j].name => i = j

\* C7 as stated: (with valid options) the names of the globals stay pairwise
\* distinct, and every new name is exactly an old name with _obf or _enc
\* appended.
NamesUniqueBySuffix ==
    [][ValidConfig => (NamesDistinct' /\ NamesExactStep)]_vars

\* C7 as amended: the names of the globals stay pairwise distinct, and every
\* new name is an old name with _obf or _enc appended, followed by "." and a
\* number when the suffixed name is the name of another value of the module.
NamesUniqueByUniquing ==
    [][NamesDistinct' /\ NamesUniquedStep]_vars

\* a global was given a uniqued name
NamesUniqueByUniquingWitness ==
    /\ NamesDistinct
    /\ \E i \in 1..Len(globals) : \E k \in 1..Len(globals[i].name) :
          globals[i].name[k] = "."

\* C8: on the module of any state (with valid options), a second run of
\* renamePrivateGlobals leaves the set of global names as the first run made
\* it, and reports no change.
RenamerIdempotent ==
    LET r1 == renamePrivateGlobals(globals, funcs, lastUnique)
        r2 == renamePrivateGlobals(r1.gs, funcs, r1.lu)
    IN  ValidConfig =>
            /\ NameSet(r2.gs) = NameSet(r1.gs)
            /\ ~r2.changed

PassOrderStep ==
    /\ pc' # pc =>
          <<pc, pc'>> \in
              { <<"start", "obfuscateStrings">>,
                <<"obfuscateStrings", "insertBogusFunctions">>,
                <<"insertBogusFunctions", "renamePrivateGlobals">>,
                <<"renamePrivateGlobals", "insertDeadConditionals">>,
                <<"insertDeadConditionals", "obfuscateStrings">>,
                <<"insertDeadConditionals", "outputTelemetry">>,
                <<"outputTelemetry", "done">>,
                \* getAsCString's assert ends the process
                <<"obfuscateStrings", "aborted">> }
    /\ cycles_completed' =
          IF pc = "insertDeadConditionals" THEN cycles_completed + 1
          ELSE cycles_completed
    /\ (pc = "insertDeadConditionals" /\ pc' = "outputTelemetry") =>
          cycles_completed' = Cycles

EmittedCycles ==
    (pc = "done" /\ Cycles >= 1) =>
        /\ cycles_completed = Cycles
        /\ telemetry.stderr[1].cycles_completed = Cycles
        /\ \A k \in 1..Len(telemetry.file) :
              telemetry.file[k].cycles_completed = Cycles
        /\ BogusCount = 0 => Len(funcs) = Len(M0.funcs)

\* C9: with Cycles >= 1 the passes run one after the other in the order
\* String Encryptor, Bogus Synthesizer, Symbol Renamer, Dead-Branch Inserter;
\* cycles_completed goes up by one with the fourth pass of a cycle and with
\* nothing else; the record is emitted after cycle number Cycles, and carries
\* cycles_completed = Cycles (and no decoy exists when BogusCount = 0).
OrchestratorOrder ==
    /\ [][Cycles >= 1 => PassOrderStep]_vars
    /\ []EmittedCycles

\* a finished run of several cycles that was asked for no decoy
OrchestratorOrderWitness ==
    /\ pc = "done"
    /\ Cycles = MaxCycles
    /\ BogusCount = 0
    /\ cycles_completed = Cycles
    /\ Len(funcs) = Len(M0.funcs)

\* C10: with BogusCount < 0 or Cycles <= 0 no pass runs, the module stays
\* as it was and no record is emitted.
ConfigErrorsRejected ==
    (BogusCount < 0 \/ Cycles <= 0) =>
        /\ pc = "start"
        /\ globals = M0.globals
        /\ funcs = M0.funcs
        /\ telemetry = NoTelemetry

\* C11: (with valid options) every decoy is in the module under the name that
\* was generated and logged for it.
DecoysNamedAsLogged ==
    ValidConfig =>
        /\ Len(funcs) = Len(M0.funcs) + Len(bogusLog)
        /\ \A k \in 1..Len(bogusLog) :
              funcs[Len(M0.funcs) + k].name = bogusLog[k]

\* C12: the step of outputTelemetry ends the run whether or not the file
\* could be opened: it leaves the module, the counters and the changed flag
\* as they were, it warns exactly when the file could not be opened, and the
\* counters go to stderr either way.
TelemetryFailureNonFatal ==
    [][pc = "outputTelemetry" =>
          /\ pc' = "done"
          /\ globals' = globals
          /\ funcs' = funcs
          /\ strings_obf_count' = strings_obf_count
          /\ fake_funcs_inserted' = fake_funcs_inserted
          /\ cycles_completed' = cycles_completed
          /\ changed' = changed
          /\ telemetry'.warning <=> (telemetry'.file = <<>>)
          /\ telemetry'.stderr =
                <<[strings_obf_count |-> strings_obf_count,
                   fake_funcs_inserted |-> fake_funcs_inserted,
                   cycles_completed |-> cycles_completed]>>]_vars

\* a run that mutated the module ended with the warning and no file
TelemetryFailureNonFatalWitness ==
    /\ pc = "done"
    /\ telemetry.warning
    /\ telemetry.file = <<>>
    /\ changed
    /\ globals # M0.globals
    /\ cycles_completed = Cycles

\* C13: no step removes or renames a function: the list of functions only
\* grows at its end, and every function the module had before the run is
\* still there under its name.
FunctionsOnlyGrow ==
    /\ [][/\ Len(funcs') >= Len(funcs)
          /\ \A i \in 1..Len(funcs) : funcs'[i].name = funcs[i].name]_vars
    /\ [](/\ Len(funcs) >= Len(M0.funcs)
          /\ \A i \in OrigFuncs : funcs[i].name = M0.funcs[i].name)

\* a finished run that added decoys and a dead branch to a module with main
FunctionsOnlyGrowWitness ==
    /\ pc = "done"
    /\ Len(funcs) > Len(M0.funcs)
    /\ \E i \in OrigFuncs :
          /\ funcs[i].name = <<"main">>
          /\ funcs[i] # M0.funcs[i]

\* the globals the String Encryptor selects in the current module
Selected == {i \in 1..Len(globals) : EligibleString(globals[i])}

HasPrefix(name, pre) ==
    Len(name) >= Len(pre) /\ SubSeq(name, 1, Len(pre)) = pre

NothingToObfuscate ==
    /\ \A i \in OrigGlobals :
          ~(M0.globals[i].isConstant /\ isString(M0.globals[i]))
    /\ \A i \in OrigFuncs : isDeclaration(M0.funcs[i])

\* C15: on a module with no constant string global and only declarations,
\* with BogusCount >= 0 and Cycles >= 1, the pipeline runs to completion (it
\* never aborts, and a step is enabled until it is done), no string is
\* counted, fake_funcs_inserted ends as BogusCount * Cycles, and every call
\* of insertDeadConditionals returns false and leaves the function list,
\* decoys included, as it was.
NoWorkPipeline ==
    /\ []((NothingToObfuscate /\ ValidConfig) =>
              /\ pc # "aborted"
              /\ pc # "done" => ENABLED Next
              /\ cycles_completed <= Cycles
              /\ strings_obf_count = 0
              /\ pc = "insertDeadConditionals" =>
                    ~insertDeadConditionals(funcs).changed
              /\ pc = "done" =>
                    /\ fake_funcs_inserted = BogusCount * Cycles
                    /\ cycles_completed = Cycles)
    /\ [][(NothingToObfuscate /\ ValidConfig
             /\ pc = "insertDeadConditionals") => funcs' = funcs]_vars

\* the pipeline has finished two or more cycles over a global and a
\* declaration, with decoys in the module
NoWorkPipelineWitness ==
    /\ pc = "done"
    /\ NothingToObfuscate
    /\ M0.globals # <<>>
    /\ Cycles >= 2
    /\ BogusCount >= 1
    /\ fake_funcs_inserted = BogusCount * Cycles
    /\ Len(funcs) = Len(M0.funcs) + BogusCount * Cycles

\* C16: for every byte sequence s and every key k, applying the encryptor's
\* per-byte operation b XOR (k & 0xFF) to s and then again to the result,
\* with the same key, gives s back; the operation keeps the length and stays
\* within a byte.
XorInvolution ==
    /\ Len(globals) >= 2 =>
          /\ Len(globals[2].payload) = Len(globals[1].payload)
          /\ \A i \in 1..Len(globals[2].payload) :
                globals[2].payload[i] \in 0..255
    /\ pc = "end" => globals[3].payload = globals[1].payload

\* a sequence of MaxLen bytes went through both runs with a key above 255,
\* and every byte of it was changed in between
XorInvolutionWitness ==
    /\ pc = "end"
    /\ XorKey = 426
    /\ Len(globals[1].payload) = MaxLen
    /\ \A i \in 1..MaxLen : globals[2].payload[i] # globals[1].payload[i]
    /\ \E i \in 1..MaxLen : globals[1].payload[i] = 0
    /\ \E i \in 1..MaxLen : globals[1].payload[i] = 255
    /\ globals[3].payload = globals[1].payload

\* the functions of the current module that are defined, are not named as
\* decoys and have an instruction in their entry block
EligibleFuncs ==
    {i \in 1..Len(funcs) :
        /\ funcs[i].blocks # <<>>
        /\ ~StartsWith(funcs[i].name, "bogus_func_")
        /\ funcs[i].blocks[1].instrs # <<>>}

\* C17: a call of insertDeadConditionals modifies at most one function, the
\* one it modifies is the first in module order that is defined, is not named
\* bogus_func_..., and has a non-empty entry block; every other function's
\* blocks and instructions are the same after the call.
DeadBranchFrame ==
    [][pc = "insertDeadConditionals" =>
          LET Modified == {i \in 1..Len(funcs) : funcs'[i] # funcs[i]}
          IN  /\ Len(funcs') = Len(funcs)
              /\ Cardinality(Modified) <= 1
              /\ \A i \in Modified :
                    /\ i \in EligibleFuncs
                    /\ \A j \in EligibleFuncs : i <= j
              /\ EligibleFuncs # {} => Modified # {}]_vars

\* the third function was modified, past a definition with an empty entry
\* block and a user function named bogus_func_helper, and the definition
\* after it was left alone
DeadBranchFrameWitness ==
    /\ cycles_completed >= 1
    /\ Len(M0.funcs) = 4
    /\ M0.funcs[1].blocks # <<>> /\ M0.funcs[1].blocks[1].instrs = <<>>
    /\ funcs[1] = M0.funcs[1]
    /\ funcs[2] = M0.funcs[2]
    /\ funcs[3] # M0.funcs[3]
    /\ funcs[4] = M0.funcs[4]
    /\ funcs[4].blocks[1].instrs # <<>>

\* the entry block holds the comparison, if the builder kept one, and then the
\* conditional branch, and nothing else
OnlyTheDeadTest(instrs) ==
    /\ Len(instrs) \in {1, 2}
    /\ instrs[Len(instrs)].op = "condbr"
    /\ Len(instrs) = 2 => instrs[1].op = "icmp"

\* C18: after insertDeadConditionals modified a function, the entry block
\* holds only the always-false comparison and the conditional branch, the dead
\* block holds only a jump to the continuation block, and the continuation
\* block holds the original entry-block instructions in their order, ending
\* with the original terminator.
EntryMovedToContinuation ==
    [][(ValidConfig /\ pc = "insertDeadConditionals") =>
          \A i \in 1..Len(funcs) :
             funcs'[i] # funcs[i] =>
                LET n    == Len(funcs'[i].blocks)
                    Dead == funcs'[i].blocks[n - 1]
                    Cont == funcs'[i].blocks[n]
                IN  /\ OnlyTheDeadTest(funcs'[i].blocks[1].instrs)
                    /\ Dead.instrs = <<Ins("br", 0, n, 0)>>
                    /\ Cont.instrs = funcs[i].blocks[1].instrs]_vars

\* how many times _obf stands in the part of a global's name that was added
\* to the name it had when the run began
SuffixesAdded(i) ==
    Cardinality({k \in (Len(M0.globals[i].name) + 1)..Len(globals[i].name) :
                    globals[i].name[k] = "_obf"})

\* C19: in a run of two or more cycles no global gets the suffix _obf
\* appended to its name more than once.
NeverSuffixedTwice ==
    (ValidConfig /\ Cycles >= 2) =>
        \A i \in OrigGlobals : SuffixesAdded(i) <= 1

RECURSIVE Pow2(_)
Pow2(n) == IF n <= 0 THEN 1 ELSE 2 * Pow2(n - 1)

\* the globals of the module the run began with that the encryptor selects
EligibleAtStart == {i \in OrigGlobals : EligibleString(M0.globals[i])}

NonZero(p) == \E k \in 1..Len(p) : p[k] # 0

\* no payload of the run encrypts to zero bytes only: from the second
\* encryption on, the payloads of a string and its copies alternate between
\* these two
NeverAllZero ==
    \A i \in EligibleAtStart :
       /\ NonZero(encryptBytes(M0.globals[i].payload, XorKey))
       /\ NonZero(encryptBytes(encryptBytes(M0.globals[i].payload, XorKey),
                               XorKey))

EncryptorRuns ==
    IF pc \in {"insertBogusFunctions", "renamePrivateGlobals",
               "insertDeadConditionals"}
    THEN cycle + 1
    ELSE cycle

\* the payload encrypted once, and the payload with 0 for its last byte (the
\* payload itself when it is null-terminated)
Once(p) == encryptBytes(p, XorKey)

Terminated(p) == [p EXCEPT ![Len(p)] = 0]

====
